---------------------------- MODULE Spec2Model ----------------------------
(***************************************************************************)
(* A model of src/app.py (FormatForge image converter): the format        *)
(* registry, the icon-size parser, convert_image_to_bytes and the batch   *)
(* loop of main().                                                         *)
(*                                                                         *)
(* Text that the code inspects character by character (format names, the  *)
(* custom icon-size text) is a sequence of one-character strings, so that  *)
(* strip/lower/upper/split/int are computed the way Python computes them.  *)
(* Pillow is the environment: whether an open, a load or a save raises is  *)
(* a nondeterministic choice of the action that makes the call.            *)
(***************************************************************************)
EXTENDS Integers, Sequences, FiniteSets, TLC

VARIABLES
    pc,                 \* position in main() / convert_image_to_bytes
    arg,                \* argument of a stand-alone registry call
    ret,                \* its return value
    ico_preset,         \* st.selectbox("Choose ICO preset ...")
    custom_sizes_text,  \* st.text_input("Enter sizes ...")
    ico_sizes,          \* main(): the resolved list of (w, h) sizes
    have_fmt,           \* "I have" selectbox
    want_fmt,           \* "Convert to" selectbox
    force_convert,      \* checkbox
    preserve_animation, \* checkbox
    jpeg_rgb,           \* background colour parsed from the colour picker
    uploaded_files,     \* the uploads, in order
    idx,                \* index of the upload the loop is at
    img,                \* the decoded image of the current upload
    detected_norm,      \* main(): normalized detected format of the upload
    img_to_save,        \* convert_image_to_bytes local
    save_kwargs,        \* convert_image_to_bytes local
    out_buffer,         \* convert_image_to_bytes local: the BytesIO, as chunks
    converted_files,    \* main(): (bytes, filename, detected format)
    skipped_files,      \* main(): (name, reason)
    errors,             \* main(): (name, error text)
    invoked,            \* history: uploads convert_image_to_bytes was called for
    lost                \* history: uploads whose animated save fell back to one frame

vars == <<pc, arg, ret, ico_preset, custom_sizes_text, ico_sizes, have_fmt, want_fmt,
          force_convert, preserve_animation, jpeg_rgb, uploaded_files, idx, img,
          detected_norm, img_to_save, save_kwargs, out_buffer, converted_files,
          skipped_files, errors, invoked, lost>>

-----------------------------------------------------------------------------
(* Bounds of the model. *)

MaxNameLen == 3
MaxTextLen == 5
MaxFiles == 3
MaxFrames == 3
MaxPartial == 1
MaxPixels == 2

-----------------------------------------------------------------------------
(* Python values and string primitives. *)

NoneVal == "None"

\* None, for a value that is otherwise an integer (a duration, a loop count,
\* a palette index, a channel).
NoneInt == 0 - 1

UpperLetters == <<"A","B","C","D","E","F","G","H","I","J","K","L","M",
                  "N","O","P","Q","R","S","T","U","V","W","X","Y","Z">>

LowerLetters == <<"a","b","c","d","e","f","g","h","i","j","k","l","m",
                  "n","o","p","q","r","s","t","u","v","w","x","y","z">>

LowerChar(c) ==
    IF \E i \in 1..26 : UpperLetters[i] = c
    THEN LowerLetters[CHOOSE i \in 1..26 : UpperLetters[i] = c]
    ELSE c

UpperChar(c) ==
    IF \E i \in 1..26 : LowerLetters[i] = c
    THEN UpperLetters[CHOOSE i \in 1..26 : LowerLetters[i] = c]
    ELSE c

\* str.lower()
Lower(s) == [i \in 1..Len(s) |-> LowerChar(s[i])]

\* str.upper()
Upper(s) == [i \in 1..Len(s) |-> UpperChar(s[i])]

IsSpace(c) == c = " "

RECURSIVE LStrip(_)
LStrip(s) == IF s # <<>> /\ IsSpace(Head(s)) THEN LStrip(Tail(s)) ELSE s

RECURSIVE RStrip(_)
RStrip(s) ==
    IF s # <<>> /\ IsSpace(s[Len(s)]) THEN RStrip(SubSeq(s, 1, Len(s) - 1)) ELSE s

\* str.strip()
Strip(s) == RStrip(LStrip(s))

\* All sequences over alphabet A of length at most n.
RECURSIVE SeqsUpTo(_, _)
SeqsUpTo(A, n) ==
    IF n = 0 THEN {<<>>}
    ELSE LET shorter == SeqsUpTo(A, n - 1)
         IN  shorter \cup {Append(s, c) : s \in shorter, c \in A}

-----------------------------------------------------------------------------
(* Format registry. *)

S_JPG == <<"j","p","g">>
S_JPEG == <<"j","p","e","g">>
S_PNG == <<"p","n","g">>
S_ICO == <<"i","c","o">>
S_ICON == <<"i","c","o","n">>
S_GIF == <<"g","i","f">>
S_BMP == <<"b","m","p">>
S_WEBP == <<"w","e","b","p">>
S_TIFF == <<"t","i","f","f">>
S_TIF == <<"t","i","f">>

JPEG == Upper(S_JPEG)
PNG == Upper(S_PNG)
ICO == Upper(S_ICO)
GIF == Upper(S_GIF)
BMP == Upper(S_BMP)
WEBP == Upper(S_WEBP)
TIFF == Upper(S_TIFF)

\* The enumerated formats of the specification's ImageFormat.
ImageFormat == {PNG, JPEG, ICO, GIF, BMP, WEBP, TIFF}

\* The dict literal of normalize_format_name, as (key, value) pairs.
mapping ==
    { <<S_JPG, JPEG>>, <<S_JPEG, JPEG>>, <<S_PNG, PNG>>, <<S_ICO, ICO>>,
      <<S_ICON, ICO>>, <<S_GIF, GIF>>, <<S_BMP, BMP>>, <<S_WEBP, WEBP>>,
      <<S_TIFF, TIFF>>, <<S_TIF, TIFF>> }

\* dict.get(key, default)
DictGet(d, key, default) ==
    IF \E kv \in d : kv[1] = key
    THEN (CHOOSE kv \in d : kv[1] = key)[2]
    ELSE default

\* A plausible slip: the lookup is made without lower-casing the name.
normalize_format_name_nolower(name) ==
    IF name = <<>> THEN <<>>
    ELSE LET n == Strip(name)
         IN  DictGet(mapping, n, Upper(n))

normalize_format_name(name) ==
    IF name = <<>> THEN <<>>
    ELSE LET n == Lower(Strip(name))
         IN  DictGet(mapping, n, Upper(n))

\* The dict literal of get_extension_for_format.
ext_map ==
    { <<JPEG, <<".","j","p","g">> >>, <<PNG, <<".","p","n","g">> >>,
      <<ICO, <<".","i","c","o">> >>, <<GIF, <<".","g","i","f">> >>,
      <<BMP, <<".","b","m","p">> >>, <<WEBP, <<".","w","e","b","p">> >>,
      <<TIFF, <<".","t","i","f","f">> >> }

get_extension_for_format(format_name) ==
    LET fmt == normalize_format_name(format_name)
    IN  DictGet(ext_map, fmt, <<".">> \o Lower(fmt))

-----------------------------------------------------------------------------
(* Icon sizes: parse_custom_sizes and the preset branch of main(). *)

Digits == <<"0","1","2","3","4","5","6","7","8","9">>

IsDigit(c) == \E i \in 1..10 : Digits[i] = c

DigitValue(c) == (CHOOSE i \in 1..10 : Digits[i] = c) - 1

\* str.split(sep) for a one-character separator: always at least one part.
RECURSIVE Split(_, _)
Split(s, sep) ==
    IF \A i \in 1..Len(s) : s[i] # sep THEN <<s>>
    ELSE LET k == CHOOSE i \in 1..Len(s) :
                      s[i] = sep /\ \A j \in 1..(i - 1) : s[j] # sep
         IN  <<SubSeq(s, 1, k - 1)>> \o Split(SubSeq(s, k + 1, Len(s)), sep)

\* The texts int() accepts, among stripped texts over digits, signs, letters
\* and blanks: an optional sign followed by one or more digits.
IsIntLiteral(p) ==
    LET body == IF p # <<>> /\ Head(p) \in {"-", "+"} THEN Tail(p) ELSE p
    IN  body # <<>> /\ \A i \in 1..Len(body) : IsDigit(body[i])

RECURSIVE DecimalValue(_)
DecimalValue(ds) ==
    IF ds = <<>> THEN 0
    ELSE 10 * DecimalValue(SubSeq(ds, 1, Len(ds) - 1)) + DigitValue(ds[Len(ds)])

\* int(p) for a text that IsIntLiteral.
IntValue(p) ==
    IF Head(p) = "-" THEN 0 - DecimalValue(Tail(p))
    ELSE IF Head(p) = "+" THEN DecimalValue(Tail(p))
    ELSE DecimalValue(p)

\* [p.strip() for p in text.split(",") if p.strip()]
SizeParts(text) ==
    LET raw == Split(text, ",")
    IN  SelectSeq([i \in 1..Len(raw) |-> Strip(raw[i])], LAMBDA p : p # <<>>)

Square(v) == <<v, v>>

\* The loop of parse_custom_sizes when no int() raises.
RECURSIVE PositiveSquares(_)
PositiveSquares(parts) ==
    IF parts = <<>> THEN <<>>
    ELSE LET val == IntValue(Head(parts))
         IN  (IF val > 0 THEN <<Square(val)>> ELSE <<>>) \o PositiveSquares(Tail(parts))

\* The try block spans the whole loop: one ValueError returns [].
parse_custom_sizes(text) ==
    LET parts == SizeParts(text)
    IN  IF \E i \in 1..Len(parts) : ~IsIntLiteral(parts[i])
        THEN <<>>
        ELSE PositiveSquares(parts)

\* The selectbox choices, each named by the word its label starts with
\* (main() tests them with str.startswith).
IcoPresets == {"Default", "Small", "Medium", "Large", "All", "Custom"}

SizesAll == <<Square(256), Square(128), Square(64), Square(48), Square(32), Square(16)>>

SizesFallback == <<Square(256), Square(128), Square(64)>>

\* main(): "prepare ICO sizes list".
ResolveIcoSizes(preset, text) ==
    IF preset \in {"Default", "All"} THEN SizesAll
    ELSE IF preset = "Small" THEN <<Square(16), Square(32)>>
    ELSE IF preset = "Medium" THEN <<Square(64), Square(128)>>
    ELSE IF preset = "Large" THEN <<Square(256)>>
    ELSE IF preset = "Custom"
         THEN LET parsed == parse_custom_sizes(text)
              IN  IF parsed # <<>> THEN parsed ELSE SizesFallback
    ELSE SizesFallback

-----------------------------------------------------------------------------
(* Images, as Pillow presents them to the code.                            *)
(*                                                                         *)
(* An image is [format, mode, transparency, palette, frames, loop, pos]:   *)
(* img.format, img.mode, img.info.get("transparency"), the palette of a P  *)
(* image, the frames in order (each its pixels and its info["duration"]),  *)
(* img.info.get("loop") and the frame the image is seeked to.  A pixel is  *)
(* [c, a, i]: colour (one number stands for all its channels), alpha and   *)
(* palette index, each NoneInt in a mode that has no such channel.         *)

Colours == {10, 200}

Alphas == {0, 128, 255}

Opaque == 255

\* No image: the value of an image variable that is not bound.
NoImage ==
    [format |-> <<>>, mode |-> "", transparency |-> NoneInt, palette |-> <<>>,
     frames |-> <<>>, loop |-> NoneInt, pos |-> 1]

\* getattr(img, "is_animated", False)
is_animated(im) == Len(im.frames) > 1

HasAlpha(im) == im.mode \in {"RGBA", "LA"}

RGBPixel(colour) == [c |-> colour, a |-> NoneInt, i |-> NoneInt]

RGBAPixel(colour, alpha) == [c |-> colour, a |-> alpha, i |-> NoneInt]

PalettePixel(index) == [c |-> NoneInt, a |-> NoneInt, i |-> index]

\* One pixel of Image.convert("RGB"): alpha is dropped, a palette index is
\* looked up, whatever info["transparency"] says.
PixelToRGB(im, px) ==
    IF im.mode = "P" THEN RGBPixel(im.palette[px.i + 1]) ELSE RGBPixel(px.c)

\* One pixel of Image.convert("RGBA"): the transparent palette index becomes alpha 0.
PixelToRGBA(im, px) ==
    IF im.mode = "P"
    THEN RGBAPixel(im.palette[px.i + 1], IF im.transparency = px.i THEN 0 ELSE Opaque)
    ELSE IF HasAlpha(im) THEN RGBAPixel(px.c, px.a)
    ELSE RGBAPixel(px.c, Opaque)

\* Every pixel of frame k, converted to RGB.
FrameToRGB(im, k) ==
    [j \in 1..Len(im.frames[k].px) |-> PixelToRGB(im, im.frames[k].px[j])]

\* Every pixel of frame k, converted to RGBA.
FrameToRGBA(im, k) ==
    [j \in 1..Len(im.frames[k].px) |-> PixelToRGBA(im, im.frames[k].px[j])]

\* im.convert(mode) of the frame the image is seeked to: a new one-frame image
\* that keeps a copy of info.
ConvertTo(im, mode) ==
    [format |-> <<>>, mode |-> mode, transparency |-> NoneInt, palette |-> <<>>,
     frames |-> << [px |-> IF mode = "RGB"
                           THEN FrameToRGB(im, im.pos)
                           ELSE FrameToRGBA(im, im.pos),
                    duration |-> im.frames[im.pos].duration] >>,
     loop |-> im.loop, pos |-> 1]

\* Image.paste(im, mask=alpha) on one pixel of an opaque canvas.
Blend(src, bg, a) == (src * a + bg * (Opaque - a)) \div Opaque

\* Image.new("RGB", img.size, colour) followed by bg.paste(...).
Canvas(im, pixels) ==
    [format |-> <<>>, mode |-> "RGB", transparency |-> NoneInt, palette |-> <<>>,
     frames |-> << [px |-> pixels, duration |-> NoneInt] >>,
     loop |-> NoneInt, pos |-> 1]

\* bg.paste(img, mask=img.split()[-1])
PasteWithAlpha(im, bg_rgb) ==
    Canvas(im, [j \in 1..Len(im.frames[im.pos].px) |->
                   RGBPixel(Blend(im.frames[im.pos].px[j].c, bg_rgb,
                                  im.frames[im.pos].px[j].a))])

\* bg.paste(img) for a P image: paste converts the palette image to the
\* canvas mode and, having no mask, overwrites every canvas pixel.  The
\* except branch, bg.paste(img.convert("RGB")), gives the same pixels.
PasteNoMask(im, bg_rgb) ==
    Canvas(im, FrameToRGB(im, im.pos))

\* convert_image_to_bytes, "Handle JPEG background if needed".
JpegImage(im, bg_rgb) ==
    IF HasAlpha(im) \/ (im.mode = "P" /\ im.transparency # NoneInt)
    THEN IF HasAlpha(im) THEN PasteWithAlpha(im, bg_rgb) ELSE PasteNoMask(im, bg_rgb)
    ELSE ConvertTo(im, "RGB")

\* What a successful Image.save writes: one chunk naming the container format
\* and what was encoded in it.
EncodedFile(format, mode, frames, loop, sizes) ==
    [kind |-> "file", format |-> format, mode |-> mode, frames |-> frames,
     loop |-> loop, sizes |-> sizes]

\* im.save(buf, format=.., **kwargs) without save_all: the current frame only.
SaveStill(im, format, kwargs) ==
    EncodedFile(format, im.mode, <<im.frames[im.pos]>>, NoneInt, kwargs)

\* frames[0].save(buf, format="GIF", save_all=True, append_images=frames[1:],
\*                loop=loop, duration=duration, disposal=2)
\* with frames = [frame.convert("RGBA") for frame in ImageSequence.Iterator(img)]:
\* an integer duration is written on every frame.
SaveAllFrames(im, loop, duration) ==
    EncodedFile(GIF, "RGBA",
                [k \in 1..Len(im.frames) |->
                    [px |-> FrameToRGBA(im, k), duration |-> duration]],
                loop, <<>>)

\* What a save that raised left behind in the buffer.
PartialChunk(format) ==
    [kind |-> "partial", format |-> format, mode |-> "", frames |-> <<>>,
     loop |-> NoneInt, sizes |-> <<>>]

PartialWrites(format, n) == [k \in 1..n |-> PartialChunk(format)]

\* dict.get(key, default) on img.info
InfoGet(value, default) == IF value = NoneInt THEN default ELSE value

\* os.path.splitext(name)[1].lstrip(".").upper(), for a name kept as [base, ext].
ExtUpper(name) == Upper(name.ext)

ModeName(mode) ==
    CASE mode = "RGB" -> <<"R","G","B">>
      [] mode = "RGBA" -> <<"R","G","B","A">>
      [] mode = "LA" -> <<"L","A">>
      [] mode = "L" -> <<"L">>
      [] OTHER -> <<"P">>

image_format_from_pil(im, filename_hint) ==
    IF im.format # <<>> THEN Upper(im.format)
    ELSE IF filename_hint # NoneVal /\ ExtUpper(filename_hint) # <<>>
         THEN ExtUpper(filename_hint)
    ELSE Upper(ModeName(im.mode))

-----------------------------------------------------------------------------
(* main(): the option values and the batch loop.                           *)
(*                                                                         *)
(* An upload is [name, content, image]: name is [base, ext] (what          *)
(* os.path.splitext makes of it), content says what Pillow makes of the    *)
(* bytes ("image": opens and loads; "not_image": Image.open raises         *)
(* UnidentifiedImageError; "truncated": Image.open succeeds and img.load() *)
(* raises OSError), image is what a successful decode returns.  The model  *)
(* gives each upload of a batch its own base name, so that every outcome   *)
(* record can be traced to its upload.                                     *)

\* available_choices of main()
available_choices ==
    { Upper(S_PNG), Upper(S_JPG), Upper(S_JPEG), Upper(S_ICO),
      Upper(S_GIF), Upper(S_BMP), Upper(S_WEBP), Upper(S_TIFF) }

CurrentUpload == uploaded_files[idx]

\* target = normalize_format_name(target_format)
target == normalize_format_name(want_fmt)

\* The locals of one loop iteration, out of scope between iterations.
ClearLocals ==
    /\ img' = NoImage
    /\ detected_norm' = <<>>
    /\ img_to_save' = NoImage
    /\ save_kwargs' = <<>>
    /\ out_buffer' = <<>>

NextUpload ==
    /\ idx' = idx + 1
    /\ pc' = "loop"
    /\ ClearLocals

UNCHANGED_options ==
    UNCHANGED <<arg, ret, ico_preset, custom_sizes_text, have_fmt, want_fmt,
                force_convert, preserve_animation, jpeg_rgb, uploaded_files>>

\* if convert_clicked and uploaded_files: the three lists are created and the
\* icon sizes resolved.
PrepareSizes ==
    /\ pc = "start"
    /\ uploaded_files # <<>>
    /\ ico_sizes' = ResolveIcoSizes(ico_preset, custom_sizes_text)
    /\ converted_files' = <<>>
    /\ skipped_files' = <<>>
    /\ errors' = <<>>
    /\ pc' = "loop"
    /\ UNCHANGED <<idx, img, detected_norm, img_to_save, save_kwargs, out_buffer,
                   invoked, lost>>
    /\ UNCHANGED_options

\* read_image_from_upload returns the loaded image.
ReadOk ==
    /\ pc = "loop"
    /\ idx <= Len(uploaded_files)
    /\ CurrentUpload.content = "image"
    /\ img' = CurrentUpload.image
    /\ pc' = "check"
    /\ UNCHANGED <<ico_sizes, idx, detected_norm, img_to_save, save_kwargs, out_buffer,
                   converted_files, skipped_files, errors, invoked, lost>>
    /\ UNCHANGED_options

\* except UnidentifiedImageError: skipped_files.append(...); continue
ReadUnidentified ==
    /\ pc = "loop"
    /\ idx <= Len(uploaded_files)
    /\ CurrentUpload.content = "not_image"
    /\ skipped_files' = Append(skipped_files, <<CurrentUpload.name, <<"Unidentified image">> >>)
    /\ NextUpload
    /\ UNCHANGED <<ico_sizes, converted_files, errors, invoked, lost>>
    /\ UNCHANGED_options

\* img.load() raises OSError, which is no UnidentifiedImageError: the outer
\* except Exception records it.
ReadLoadError ==
    /\ pc = "loop"
    /\ idx <= Len(uploaded_files)
    /\ CurrentUpload.content = "truncated"
    /\ errors' = Append(errors, <<CurrentUpload.name, "image file is truncated">>)
    /\ NextUpload
    /\ UNCHANGED <<ico_sizes, converted_files, skipped_files, invoked, lost>>
    /\ UNCHANGED_options

\* normalize_format_name(image_format_from_pil(img, up.name))
DetectedNorm(up) == normalize_format_name(image_format_from_pil(up.image, up.name))

\* A plausible slip: the force checkbox is not consulted.
ShouldSkip_ignoreforce(selected_input, detected, force) ==
    selected_input # detected

\* if (selected_input != detected_norm) and (not force_convert)
ShouldSkip(selected_input, detected, force) ==
    (selected_input # detected) /\ ~force

\* A plausible slip: the skip is recorded without the continue.
SkipMismatch_nocontinue ==
    /\ pc = "check"
    /\ ShouldSkip(normalize_format_name(have_fmt), DetectedNorm(CurrentUpload), force_convert)
    /\ detected_norm' = DetectedNorm(CurrentUpload)
    /\ skipped_files' = Append(skipped_files,
                               <<CurrentUpload.name,
                                 <<"Format mismatch", DetectedNorm(CurrentUpload)>> >>)
    /\ invoked' = invoked \cup {idx}
    /\ pc' = "convert"
    /\ UNCHANGED <<idx, img, img_to_save, save_kwargs, out_buffer>>
    /\ UNCHANGED <<ico_sizes, converted_files, errors, lost>>
    /\ UNCHANGED_options

\* skipped_files.append((up.name, f"Format mismatch (detected: {detected_norm})")); continue
SkipMismatch ==
    /\ pc = "check"
    /\ ShouldSkip(normalize_format_name(have_fmt), DetectedNorm(CurrentUpload), force_convert)
    /\ skipped_files' = Append(skipped_files,
                               <<CurrentUpload.name,
                                 <<"Format mismatch", DetectedNorm(CurrentUpload)>> >>)
    /\ NextUpload
    /\ UNCHANGED <<ico_sizes, converted_files, errors, invoked, lost>>
    /\ UNCHANGED_options

\* The check passes: convert_image_to_bytes is called.
EnterConvert ==
    /\ pc = "check"
    /\ ~ShouldSkip(normalize_format_name(have_fmt), DetectedNorm(CurrentUpload), force_convert)
    /\ detected_norm' = DetectedNorm(CurrentUpload)
    /\ invoked' = invoked \cup {idx}
    /\ pc' = "convert"
    /\ UNCHANGED <<ico_sizes, idx, img, img_to_save, save_kwargs, out_buffer,
                   converted_files, skipped_files, errors, lost>>
    /\ UNCHANGED_options

-----------------------------------------------------------------------------
(* convert_image_to_bytes, one action per block of the function. *)

UNCHANGED_batch ==
    UNCHANGED <<ico_sizes, idx, img, detected_norm, converted_files, skipped_files,
                errors, invoked>>

\* out_buffer = io.BytesIO(); the JPEG branch; the ICO sizes keyword.
PrepareImage ==
    /\ pc = "convert"
    /\ out_buffer' = <<>>
    /\ img_to_save' = IF target = JPEG THEN JpegImage(img, jpeg_rgb) ELSE img
    /\ save_kwargs' = IF target = ICO /\ ico_sizes # <<>> THEN ico_sizes ELSE <<>>
    /\ pc' = IF target = GIF /\ is_animated(img) /\ preserve_animation
             THEN "save_anim" ELSE "save"
    /\ UNCHANGED lost
    /\ UNCHANGED_batch
    /\ UNCHANGED_options

\* The try block of the GIF branch.  The save starts writing at the buffer's
\* position; when it (or a frame's convert) raises, what it wrote stays, and img
\* stays seeked to the frame the iteration had reached.
SaveAnimated ==
    /\ pc = "save_anim"
    /\ \/ /\ out_buffer' = Append(out_buffer,
                                  SaveAllFrames(img, InfoGet(img.loop, 0),
                                                InfoGet(img.frames[img.pos].duration, 100)))
          /\ pc' = "return"
          /\ UNCHANGED img_to_save
       \/ /\ \E n \in 0..MaxPartial, k \in 1..Len(img.frames) :
                /\ out_buffer' = out_buffer \o PartialWrites(GIF, n)
                /\ img_to_save' = [img_to_save EXCEPT !.pos = k]
          /\ pc' = "anim_fallback"
    /\ UNCHANGED <<save_kwargs, lost>>
    /\ UNCHANGED_batch
    /\ UNCHANGED_options

\* except Exception: img_to_save.convert("RGBA").save(out_buffer, format="GIF")
SaveAnimatedFallback ==
    /\ pc = "anim_fallback"
    /\ \/ /\ out_buffer' = Append(out_buffer,
                                  SaveStill(ConvertTo(img_to_save, "RGBA"), GIF, <<>>))
          /\ lost' = lost \cup {idx}
          /\ pc' = "return"
       \/ /\ pc' = "raised"
          /\ UNCHANGED <<out_buffer, lost>>
    /\ UNCHANGED <<img_to_save, save_kwargs>>
    /\ UNCHANGED_batch
    /\ UNCHANGED_options

\* try: img_to_save.save(out_buffer, format=target, **save_kwargs)
SaveRegular ==
    /\ pc = "save"
    /\ \/ /\ out_buffer' = Append(out_buffer, SaveStill(img_to_save, target, save_kwargs))
          /\ pc' = "return"
       \/ /\ \E n \in 0..MaxPartial :
                out_buffer' = out_buffer \o PartialWrites(target, n)
          /\ pc' = "fallback"
    /\ UNCHANGED <<img_to_save, save_kwargs, lost>>
    /\ UNCHANGED_batch
    /\ UNCHANGED_options

\* The format of the retry: target if target != "ICO" else "PNG".
FallbackFormat(t) == IF t # ICO THEN t ELSE PNG

\* except Exception: temp = img_to_save.convert("RGBA"); temp.save(...).
\* Pillow's JPEG encoder writes no RGBA image, so that retry always raises.
SaveFallback ==
    /\ pc = "fallback"
    /\ \/ /\ target # JPEG
          /\ out_buffer' = Append(out_buffer,
                                  SaveStill(ConvertTo(img_to_save, "RGBA"),
                                            FallbackFormat(target), save_kwargs))
          /\ pc' = "return"
       \/ /\ pc' = "raised"
          /\ UNCHANGED out_buffer
    /\ UNCHANGED <<img_to_save, save_kwargs, lost>>
    /\ UNCHANGED_batch
    /\ UNCHANGED_options

\* os.path.splitext(os.path.basename(original_filename)) and the new extension.
OutFilename(name, t) == [base |-> name.base, ext |-> get_extension_for_format(t)]

\* out_buffer.seek(0); out_bytes = out_buffer.read(); return; and main()'s
\* converted_files.append((out_bytes, out_filename, detected_norm)).
Return ==
    /\ pc = "return"
    /\ converted_files' = Append(converted_files,
                                 <<out_buffer, OutFilename(CurrentUpload.name, target),
                                   detected_norm>>)
    /\ NextUpload
    /\ UNCHANGED <<ico_sizes, skipped_files, errors, invoked, lost>>
    /\ UNCHANGED_options

\* except Exception as e: errors.append((up.name, str(e)))
RecordError ==
    /\ pc = "raised"
    /\ errors' = Append(errors, <<CurrentUpload.name, "cannot write image">>)
    /\ NextUpload
    /\ UNCHANGED <<ico_sizes, converted_files, skipped_files, invoked, lost>>
    /\ UNCHANGED_options

\* The for loop is exhausted: the results are rendered.
EndLoop ==
    /\ pc = "loop"
    /\ idx > Len(uploaded_files)
    /\ pc' = "done"
    /\ UNCHANGED <<ico_sizes, idx, img, detected_norm, img_to_save, save_kwargs,
                   out_buffer, converted_files, skipped_files, errors, invoked, lost>>
    /\ UNCHANGED_options

\* A stand-alone call of normalize_format_name.
CallNormalize ==
    /\ pc = "call"
    /\ ret' = normalize_format_name(arg)
    /\ pc' = "returned"
    /\ UNCHANGED <<arg, ico_preset, custom_sizes_text, ico_sizes, have_fmt, want_fmt,
                   force_convert, preserve_animation, jpeg_rgb, uploaded_files, idx,
                   img, detected_norm, img_to_save, save_kwargs, out_buffer,
                   converted_files, skipped_files, errors, invoked, lost>>

-----------------------------------------------------------------------------
(* The inputs the specifications draw from. *)

Image(format, mode, transparency, palette, frames, loop) ==
    [format |-> format, mode |-> mode, transparency |-> transparency,
     palette |-> palette, frames |-> frames, loop |-> loop, pos |-> 1]

PixelsOf(mode) ==
    IF mode = "P" THEN {PalettePixel(i) : i \in 0..1}
    ELSE IF mode \in {"RGBA", "LA"} THEN {RGBAPixel(c, a) : c \in Colours, a \in Alphas}
    ELSE {RGBPixel(c) : c \in Colours}

\* One-frame images of every pixel mode the code distinguishes, MaxPixels pixels each.
StillImages(format) ==
    UNION { { Image(format, mode, tr, pal, << [px |-> px, duration |-> NoneInt] >>, NoneInt) :
                px \in [1..MaxPixels -> PixelsOf(mode)],
                tr \in IF mode = "P" THEN {NoneInt, 0, 1} ELSE {NoneInt},
                pal \in IF mode = "P" THEN [1..2 -> Colours] ELSE {<<>>} } :
            mode \in {"RGB", "RGBA", "LA", "L", "P"} }

Durations == {NoneInt, 100, 150}

Loops == {NoneInt, 0, 2}

\* Animated GIFs: palette images of 2..MaxFrames one-pixel frames, each frame
\* with its own duration (or none declared).
AnimatedImages ==
    UNION { { Image(GIF, "P", 0, <<10, 200>>,
                    [k \in 1..n |-> [px |-> <<PalettePixel(k % 2)>>, duration |-> ds[k]]], lp) :
                ds \in [1..n -> Durations], lp \in Loops } :
            n \in 2..MaxFrames }

Backgrounds == {10, 255}

Upload(k, content, im) ==
    [name |-> [base |-> k,
               ext |-> IF content = "not_image" THEN <<"t","x","t">>
                       ELSE IF im = NoImage THEN S_PNG ELSE Lower(im.format)],
     content |-> content,
     image |-> im]

\* What one upload can be: (content, image).
UploadKinds(images) ==
    {<<"image", im>> : im \in images} \cup {<<"not_image", NoImage>>, <<"truncated", NoImage>>}

Batches(images, n) ==
    UNION { { [k \in 1..m |-> Upload(k, kinds[k][1], kinds[k][2])] :
                kinds \in [1..m -> UploadKinds(images)] } :
            m \in 1..n }

InitLocals ==
    /\ ico_sizes = <<>>
    /\ idx = 1
    /\ img = NoImage
    /\ detected_norm = <<>>
    /\ img_to_save = NoImage
    /\ save_kwargs = <<>>
    /\ out_buffer = <<>>
    /\ converted_files = <<>>
    /\ skipped_files = <<>>
    /\ errors = <<>>
    /\ invoked = {}
    /\ lost = {}

\* The images of the batch specification: one per detected format, the GIF animated.
BatchImages ==
    { Image(PNG, "RGBA", NoneInt, <<>>,
            << [px |-> [j \in 1..MaxPixels |-> RGBAPixel(200, 0)],
                duration |-> NoneInt] >>, NoneInt),
      Image(JPEG, "RGB", NoneInt, <<>>,
            << [px |-> [j \in 1..MaxPixels |-> RGBPixel(10)], duration |-> NoneInt] >>, NoneInt),
      Image(GIF, "P", 0, <<10, 200>>,
            << [px |-> <<PalettePixel(0)>>, duration |-> 100],
               [px |-> <<PalettePixel(1)>>, duration |-> 150] >>, 0) }

\* A click on Convert with up to MaxFiles uploads, declared "JPG" (an alias of
\* the JPEG upload's detected format, a mismatch for the others).
Init ==
    /\ pc = "start"
    /\ arg = NoneVal
    /\ ret = NoneVal
    /\ ico_preset = "Small"
    /\ custom_sizes_text = <<>>
    /\ have_fmt = Upper(S_JPG)
    /\ want_fmt \in {Upper(S_GIF), Upper(S_JPG)}
    /\ force_convert \in BOOLEAN
    /\ preserve_animation \in BOOLEAN
    /\ jpeg_rgb = 255
    /\ uploaded_files \in Batches(BatchImages, MaxFiles)
    /\ InitLocals

\* A click on Convert with one upload, of any pixel content, and any target.
InitConvert ==
    /\ pc = "start"
    /\ arg = NoneVal
    /\ ret = NoneVal
    /\ ico_preset = "Small"
    /\ custom_sizes_text = <<>>
    /\ have_fmt = Upper(S_PNG)
    /\ want_fmt \in available_choices
    /\ force_convert \in BOOLEAN
    /\ preserve_animation \in BOOLEAN
    /\ jpeg_rgb \in Backgrounds
    /\ uploaded_files \in Batches(StillImages(PNG) \cup AnimatedImages, 1)
    /\ InitLocals

SizeAlphabet == {"1", "0", "a", "-", ",", " "}

\* A click on Convert with any preset, and any custom text when the preset is Custom.
InitSizes ==
    /\ pc = "start"
    /\ arg = NoneVal
    /\ ret = NoneVal
    /\ ico_preset \in IcoPresets
    /\ custom_sizes_text \in IF ico_preset = "Custom"
                             THEN SeqsUpTo(SizeAlphabet, MaxTextLen) ELSE {<<>>}
    /\ have_fmt = Upper(S_PNG)
    /\ want_fmt = Upper(S_ICO)
    /\ force_convert = FALSE
    /\ preserve_animation = TRUE
    /\ jpeg_rgb = 255
    /\ uploaded_files = <<Upload(1, "truncated", NoImage)>>
    /\ InitLocals

NameAlphabet == {"t", "I", "f", " "}

\* The names the registry is called with: every alias in lower, upper and
\* padded form, names outside the registry, and every short text over NameAlphabet.
NameInputs ==
    LET keys == {kv[1] : kv \in mapping}
        unknown == {<<"x","y","z">>, <<"M","P","O">>, <<"j","p","g","s">>, <<"p"," ","n","g">>}
        base == keys \cup unknown
    IN  base \cup {Upper(n) : n \in base} \cup {<<" ">> \o n \o <<" ">> : n \in base}
             \cup {<<UpperChar(Head(n))>> \o Tail(n) : n \in base}
             \cup SeqsUpTo(NameAlphabet, MaxNameLen)

InitNormalize ==
    /\ pc = "call"
    /\ arg \in NameInputs
    /\ ret = NoneVal
    /\ ico_preset = "Small"
    /\ custom_sizes_text = <<>>
    /\ have_fmt = Upper(S_PNG)
    /\ want_fmt = Upper(S_PNG)
    /\ force_convert = FALSE
    /\ preserve_animation = TRUE
    /\ jpeg_rgb = 255
    /\ uploaded_files = <<>>
    /\ InitLocals

Next ==
    \/ PrepareSizes
    \/ ReadOk
    \/ ReadUnidentified
    \/ ReadLoadError
    \/ SkipMismatch
    \/ EnterConvert
    \/ PrepareImage
    \/ SaveAnimated
    \/ SaveAnimatedFallback
    \/ SaveRegular
    \/ SaveFallback
    \/ Return
    \/ RecordError
    \/ EndLoop

NextSizes == PrepareSizes

NextNormalize == CallNormalize

Spec == Init /\ [][Next]_vars

SpecConvert == InitConvert /\ [][Next]_vars

SpecSizes == InitSizes /\ [][NextSizes]_vars

SpecNormalize == InitNormalize /\ [][NextNormalize]_vars

-----------------------------------------------------------------------------
(* Reading the outcome lists. *)

\* The upload a record belongs to: its (output) name's base.
ConvertedOf(i) == {r \in 1..Len(converted_files) : converted_files[r][2].base = i}

SkippedOf(i) == {r \in 1..Len(skipped_files) : skipped_files[r][1].base = i}

ErrorsOf(i) == {r \in 1..Len(errors) : errors[r][1].base = i}

NumRecords(i) ==
    Cardinality(ConvertedOf(i)) + Cardinality(SkippedOf(i)) + Cardinality(ErrorsOf(i))

\* The loop is past upload i.
Processed(i) == i \in 1..Len(uploaded_files) /\ i < idx

\* The file the successful save wrote: the last chunk of the returned bytes.
Payload(rec) == rec[1][Len(rec[1])]

SourceOf(rec) == uploaded_files[rec[2].base].image

-----------------------------------------------------------------------------
(* C1: at every point of a batch run each upload the loop is past has       *)
(* exactly one record, in exactly one of converted_files, skipped_files and *)
(* errors, each upload it has not finished has none, and so when the loop   *)
(* ends the three lists together hold exactly N records.                    *)
C1_OneRecordPerUpload ==
    pc # "start" =>
        /\ \A i \in 1..Len(uploaded_files) :
              NumRecords(i) = IF Processed(i) THEN 1 ELSE 0
        /\ Len(converted_files) + Len(skipped_files) + Len(errors) = idx - 1
        /\ pc = "done" => idx - 1 = Len(uploaded_files)

\* A finished batch of three uploads with a record in each of the three lists.
C1_Witness ==
    /\ pc = "done"
    /\ Len(uploaded_files) >= 3
    /\ converted_files # <<>>
    /\ skipped_files # <<>>
    /\ errors # <<>>

(* C2: an upload whose bytes cannot be decoded (not an image, or truncated) *)
(* is recorded in skipped_files, never in errors or converted_files, and    *)
(* every upload of the batch still reaches its own outcome.                 *)
C2_UndecodableIsSkipped ==
    /\ \A i \in 1..Len(uploaded_files) :
          (Processed(i) /\ uploaded_files[i].content # "image") =>
              /\ Cardinality(SkippedOf(i)) = 1
              /\ ErrorsOf(i) = {}
              /\ ConvertedOf(i) = {}
    /\ pc = "done" => \A i \in 1..Len(uploaded_files) : NumRecords(i) = 1

(* C3: for a decodable upload, when the normalized declared format differs  *)
(* from the normalized detected format and forcing is off, the upload gets  *)
(* a skip record citing the detected format and convert_image_to_bytes is   *)
(* never called for it; otherwise convert_image_to_bytes is called for it.  *)
C3_MismatchSkipOrConvert ==
    \A i \in 1..Len(uploaded_files) :
        uploaded_files[i].content = "image" =>
            LET det == DetectedNorm(uploaded_files[i])
                mismatch == normalize_format_name(have_fmt) # det
            IN  IF mismatch /\ ~force_convert
                THEN /\ i \notin invoked
                     /\ Processed(i) =>
                           \E r \in 1..Len(skipped_files) :
                               skipped_files[r] =
                                   <<uploaded_files[i].name, <<"Format mismatch", det>> >>
                ELSE /\ Processed(i) => i \in invoked
                     /\ SkippedOf(i) = {}

\* Forcing off, declared "JPG": a PNG upload skipped for its mismatch, citing
\* PNG, and a JPEG upload of the same batch, whose format matches, converted.
C3_Witness ==
    /\ pc = "done"
    /\ ~force_convert
    /\ \E i, j \in 1..Len(uploaded_files) :
          /\ skipped_files # <<>>
          /\ \E r \in SkippedOf(i) : skipped_files[r][2] = <<"Format mismatch", PNG>>
          /\ i \notin invoked
          /\ j \in invoked
          /\ uploaded_files[j].image.format = JPEG
          /\ ConvertedOf(j) # {}

C5_BytesAreInTargetFormat ==
    \A r \in 1..Len(converted_files) :
        /\ Payload(converted_files[r]).format = target
        /\ converted_files[r][2].ext = get_extension_for_format(Payload(converted_files[r]).format)

(* C6: with the Custom preset, the resolved size list is the positive       *)
(* integer tokens of the text, in order, each as a square, the other tokens *)
(* dropped; the built-in default replaces it only when no token is usable.  *)
UsableSizes(text) ==
    LET parts == SizeParts(text)
        good == SelectSeq(parts, LAMBDA p : IsIntLiteral(p) /\ IntValue(p) > 0)
    IN  [k \in 1..Len(good) |-> Square(IntValue(good[k]))]

C6_InvalidTokensAreDropped ==
    (pc = "loop" /\ ico_preset = "Custom") =>
        ico_sizes = IF UsableSizes(custom_sizes_text) # <<>>
                    THEN UsableSizes(custom_sizes_text)
                    ELSE SizesFallback

(* C7: when an animated source is converted to GIF with preservation on and *)
(* the re-encoding succeeds, the output has the source's frames in order,   *)
(* each with the duration of the corresponding source frame (100 when the   *)
(* source declares none), and the source's loop count (0 when undeclared).  *)
C7_FramesDurationsLoopPreserved ==
    \A r \in 1..Len(converted_files) :
        LET src == SourceOf(converted_files[r])
            out == Payload(converted_files[r])
        IN  (/\ is_animated(src)
             /\ target = GIF
             /\ preserve_animation
             /\ converted_files[r][2].base \notin lost) =>
                /\ Len(out.frames) = Len(src.frames)
                /\ \A k \in 1..Len(src.frames) :
                      /\ out.frames[k].px = FrameToRGBA(src, k)
                      /\ out.frames[k].duration = InfoGet(src.frames[k].duration, 100)
                /\ out.loop = InfoGet(src.loop, 0)

(* C8: an upload whose animated re-encoding failed and was replaced by one  *)
(* static frame has a record in the skip or error list saying so: it is     *)
(* not recorded as a plain success only.                                    *)
C8_LostAnimationIsReported ==
    \A i \in lost : Processed(i) => (SkippedOf(i) # {} \/ ErrorsOf(i) # {})

(* C9: with target JPEG, a source with transparency (RGBA, LA, or P with a  *)
(* transparent index) has every fully transparent pixel come out as the     *)
(* background colour and every fully opaque pixel as the source colour; a   *)
(* source without transparency is only converted to RGB.                    *)
SourceColour(src, px) == IF src.mode = "P" THEN src.palette[px.i + 1] ELSE px.c

FullyTransparent(src, px) ==
    IF src.mode = "P" THEN px.i = src.transparency ELSE px.a = 0

FullyOpaque(src, px) ==
    IF src.mode = "P" THEN px.i # src.transparency ELSE px.a = Opaque

C9_TransparentPixelsGetBackground ==
    \A r \in 1..Len(converted_files) :
        LET src == SourceOf(converted_files[r])
            out == Payload(converted_files[r]).frames[1].px
            inp == src.frames[1].px
        IN  target = JPEG =>
                \A j \in 1..Len(inp) :
                    IF HasAlpha(src) \/ (src.mode = "P" /\ src.transparency # NoneInt)
                    THEN /\ FullyTransparent(src, inp[j]) => out[j] = RGBPixel(jpeg_rgb)
                         /\ FullyOpaque(src, inp[j]) => out[j] = RGBPixel(SourceColour(src, inp[j]))
                    ELSE out[j] = RGBPixel(SourceColour(src, inp[j]))

(* C10: the returned bytes are exactly what the one successful save wrote:  *)
(* the buffer is empty when a retry starts writing, so nothing a failed     *)
(* first attempt wrote is part of the output.                               *)
C10_NoBytesOfFailedAttempt ==
    /\ pc \in {"fallback", "anim_fallback"} => out_buffer = <<>>
    /\ \A r \in 1..Len(converted_files) :
          /\ Len(converted_files[r][1]) = 1
          /\ converted_files[r][1][1].kind = "file"

=============================================================================
